---- MODULE Spec2Model ----
(***************************************************************************)
(* Model of core/src/components/select.ts: the membership tracker useSet,  *)
(* the selection controller useSelect and the two watchers that            *)
(* setupSelect / RenderlessSelect.setup install around it.                 *)
(***************************************************************************)
EXTENDS Integers, Sequences, FiniteSets, TLC

\* Bounds of the exploration.
MaxUpdated == 3
MaxLen == 2

\* The longest run of watcher jobs followed under a write-back owner.
MaxChain == 12

(***************************************************************************)
(* Items and their projections.  An item is an object compared by          *)
(* reference; "A", "B", "C" are three distinct objects.  B and C carry the *)
(* same value.                                                             *)
(***************************************************************************)
AllItems == {"A", "B", "C"}

\* An array slot that holds no item (itemMap.get miss, items[0] of an empty array).
Undefined == "undefined"

\* item[itemValue] with the default field name 'value'.
getValue(item) ==
  CASE item = "A" -> 1
    [] item = "B" -> 2
    [] item = "C" -> 2

\* item[itemText] with the default field name 'text'.
getText(item) ==
  CASE item = "A" -> "a"
    [] item = "B" -> "b"
    [] item = "C" -> "c"

\* The candidate lists a controller is constructed with (options.items).
CandidateLists == {<< >>, <<"A", "B">>, <<"B", "C">>, <<"A", "B", "C">>}

\* The values V an external owner may hand in; 99 belongs to no item.
AllValues == {1, 2, 99}

(***************************************************************************)
(* JavaScript values that flow through modelValue / selected.              *)
(***************************************************************************)
JNull == [t |-> "null", n |-> 0, a |-> << >>]
JUndefined == [t |-> "undefined", n |-> 0, a |-> << >>]
JEmptyStr == [t |-> "string", n |-> 0, a |-> << >>]
JNum(k) == [t |-> "number", n |-> k, a |-> << >>]
JArr(s) == [t |-> "array", n |-> 0, a |-> s]

\* ToBoolean(value) as used by `if (value)`: only the empty string is modelled
\* among strings; every array, even the empty one, is truthy.
Truthy(v) ==
  CASE v.t = "null" -> FALSE
    [] v.t = "undefined" -> FALSE
    [] v.t = "string" -> FALSE
    [] v.t = "number" -> v.n # 0
    [] v.t = "array" -> TRUE

\* Sequences over S of length at most n.
SeqUpTo(S, n) == UNION {[1..k -> S] : k \in 0..n}

\* What the owner of the model value may put in the cell.
ExternalValues ==
  {JNull, JUndefined, JEmptyStr} \cup {JNum(k) : k \in AllValues}
    \cup {JArr(s) : s \in SeqUpTo(AllValues, MaxLen)}

Range(s) == {s[i] : i \in DOMAIN s}

VARIABLES
  items,        \* options.items, the Candidate List
  multiple,     \* options.multiple
  values,       \* useSet: the Set, in insertion order
  updated,      \* useSet: updated.value
  selected,     \* useSelect: selected.value
  selectedStr,  \* useSelect: selectedStr.value
  modelValue,   \* the external model value cell
  emitted,      \* the last value handed to emit('update:model-value', ...)
  queue,        \* watcher jobs queued by the scheduler, oldest first
  adapter,      \* TRUE when set up by setupSelect / RenderlessSelect.setup
  lastCall,     \* the last operation called, its argument and result
  chain,        \* watcher jobs run since the last call or external write
  mark          \* what the first write-back of the current run left

vars == <<items, multiple, values, updated, selected, selectedStr,
          modelValue, emitted, queue, adapter, lastCall, chain, mark>>

(***************************************************************************)
(* useSet: the membership tracker.  A tracker state st is the pair of the  *)
(* Set `values` and the counter `updated`.                                 *)
(***************************************************************************)

\* Array.prototype.indexOf: the zero-based index of the first occurrence, or -1.
indexOf(arr, item) ==
  IF \E i \in DOMAIN arr : arr[i] = item
  THEN (CHOOSE i \in DOMAIN arr :
          arr[i] = item /\ \A j \in 1..(i - 1) : arr[j] # item) - 1
  ELSE -1

\* Set.prototype.add keeps the insertion order and ignores a present element.
SetAdd(vs, item) == IF item \in Range(vs) THEN vs ELSE Append(vs, item)

\* Set.prototype.delete.
SetDelete(vs, item) == SelectSeq(vs, LAMBDA x : x # item)

\* forceUpdate counting twice.
forceUpdate_Twice(st) == [st EXCEPT !.updated = @ + 2]

forceUpdate(st) == [st EXCEPT !.updated = @ + 1]

\* add without the candidate check.
add_NoCandidateCheck(st, item) ==
  forceUpdate([st EXCEPT !.values = SetAdd(@, item)])

\* add that bumps the counter before it looks at the item.
add_BumpFirst(st, item) ==
  IF indexOf(items, item) = -1
  THEN forceUpdate(st)
  ELSE forceUpdate([st EXCEPT !.values = SetAdd(@, item)])

add(st, item) ==
  IF indexOf(items, item) = -1
  THEN st
  ELSE forceUpdate([st EXCEPT !.values = SetAdd(@, item)])

has(st, item) == item \in Range(st.values)

remove(st, item) ==
  IF has(st, item)
  THEN forceUpdate([st EXCEPT !.values = SetDelete(@, item)])
  ELSE st

clear(st) == forceUpdate([st EXCEPT !.values = << >>])

\* toggle that only ever adds.
toggle_AlwaysAdd(st, item) == add(st, item)

toggle(st, item) ==
  IF has(st, item) THEN remove(st, item) ELSE add(st, item)

equals(st, arr) ==
  IF Len(arr) # Len(st.values)
  THEN FALSE
  ELSE \A i \in DOMAIN arr : has(st, arr[i])

(***************************************************************************)
(* useSelect: the selection controller.                                    *)
(***************************************************************************)

\* select that never clears: single mode accumulates.
select_NoClear(st, item) ==
  IF multiple
  THEN toggle(st, item)
  ELSE add(st, item)

select(st, item) ==
  IF multiple
  THEN toggle(st, item)
  ELSE add(clear(st), item)

\* A Value Index in which the first candidate of a value stays.
itemMap_FirstWins ==
  [v \in {getValue(items[i]) : i \in DOMAIN items} |->
     items[CHOOSE i \in DOMAIN items :
             /\ getValue(items[i]) = v
             /\ \A j \in DOMAIN items : getValue(items[j]) = v => i <= j]]

\* new Map(items.map((i) => [getValue(i), i])): a later entry overwrites an
\* earlier one with the same key.
itemMap ==
  [v \in {getValue(items[i]) : i \in DOMAIN items} |->
     items[CHOOSE i \in DOMAIN items :
             /\ getValue(items[i]) = v
             /\ \A j \in DOMAIN items : getValue(items[j]) = v => j <= i]]

\* itemMap.get(v) for a JavaScript value v.
itemMapGet(v) ==
  IF v.t = "number" /\ v.n \in DOMAIN itemMap THEN itemMap[v.n] ELSE Undefined

\* items.forEach((i) => select(i)), from the left.
RECURSIVE forEachSelect(_, _)
forEachSelect(st, arr) ==
  IF arr = << >>
  THEN st
  ELSE forEachSelect(select(st, Head(arr)), Tail(arr))

\* setItems that keeps what was selected before.
setItems_NoClear(st, arr) ==
  IF equals(st, arr)
  THEN st
  ELSE forEachSelect(st, arr)

\* setItems without the equals short-circuit.
setItems_NoEqualsCheck(st, arr) == forEachSelect(clear(st), arr)

setItems(st, arr) ==
  IF equals(st, arr)
  THEN st
  ELSE forEachSelect(clear(st), arr)

\* A normalisation that wraps nothing: a scalar becomes the empty array.
toArray_ScalarDropped(v) ==
  IF v.t = "array" THEN [i \in DOMAIN v.a |-> JNum(v.a[i])] ELSE << >>

\* Array.isArray(values) ? values : [values]
toArray(v) ==
  IF v.t = "array" THEN [i \in DOMAIN v.a |-> JNum(v.a[i])] ELSE <<v>>

\* values.map((v) => itemMap.get(v)).filter((item) => !!item)
resolve(v) ==
  SelectSeq([i \in DOMAIN toArray(v) |-> itemMapGet(toArray(v)[i])],
            LAMBDA x : x # Undefined)

setValues(st, v) == setItems(st, resolve(v))

\* items.map(getText).join(',')
RECURSIVE join(_)
join(arr) ==
  IF arr = << >> THEN ""
  ELSE IF Len(arr) = 1 THEN getText(arr[1])
  ELSE getText(Head(arr)) \o "," \o join(Tail(arr))

\* computed(() => multiple ? !Array.isArray(selected.value) ||
\* selected.value.length == 0 : !!selected.value), for a selected value sel.
isEmpty(sel) ==
  IF multiple
  THEN sel.t # "array" \/ Len(sel.a) = 0
  ELSE Truthy(sel)

(***************************************************************************)
(* The scheduler: a watcher whose source changed has its job queued once,  *)
(* and queued jobs run oldest first.                                       *)
(***************************************************************************)
queueJob(q, job) == IF job \in Range(q) THEN q ELSE Append(q, job)

\* The tracker state held in the variables.
Tracker == [values |-> values, updated |-> updated]

\* The state a watcher job leaves, the counter apart, after `at` jobs.
Snapshot(vs, sel, str, mv, q, at) ==
  [set |-> TRUE, values |-> vs, selected |-> sel, selectedStr |-> str,
   modelValue |-> mv, queue |-> q, at |-> at]

\* No write-back yet in the current run of watcher jobs.
NoMark ==
  [set |-> FALSE, values |-> << >>, selected |-> JUndefined, selectedStr |-> "",
   modelValue |-> JUndefined, queue |-> << >>, at |-> 0]

\* The record of a call: `before` is the tracker the call found, `again`
\* tells that the previous call was the same operation on the same argument.
Call(op, item, arr, val, ret) ==
  [op |-> op, item |-> item, arr |-> arr, val |-> val, ret |-> ret,
   before |-> Tracker,
   again |-> (lastCall.op = op /\ lastCall.item = item
                /\ lastCall.arr = arr /\ lastCall.val = val)]

\* The scheduler runs the queued jobs to the last one before anything else
\* runs: a call from outside comes before the first job or after the last.
NotFlushing == chain = 0 \/ queue = << >>

\* A call of a tracker or controller operation returns: st is the tracker it
\* leaves; watch(s.updated, ...) is triggered when the counter changed.
Return(st, call) ==
  /\ values' = st.values
  /\ updated' = st.updated
  /\ queue' = IF st.updated # updated THEN queueJob(queue, "updated") ELSE queue
  /\ lastCall' = call
  /\ chain' = 0
  /\ mark' = NoMark
  /\ UNCHANGED <<items, multiple, selected, selectedStr, modelValue, emitted, adapter>>

\* The watcher without its `if (value)` guard.
modelValueWatcher_NoGuard(st, value) == setValues(st, value)

\* watch(modelValue, (value) => { if (value) s.setValues(value) })
modelValueWatcher(st, value) ==
  IF Truthy(value) THEN setValues(st, value) ELSE st

\* useSelect(options) alone: nothing selected, no model value cell.
InitSelect ==
  /\ items \in CandidateLists
  /\ multiple \in BOOLEAN
  /\ adapter = FALSE
  /\ modelValue = JUndefined
  /\ selected = IF multiple THEN JArr(<< >>) ELSE JNull
  /\ selectedStr = ""
  /\ emitted = JUndefined
  /\ values = << >>
  /\ updated = 0
  /\ queue = << >>
  /\ chain = 0
  /\ mark = NoMark
  /\ lastCall = [op |-> "useSelect", item |-> Undefined, arr |-> << >>,
                 val |-> JUndefined, ret |-> FALSE,
                 before |-> [values |-> << >>, updated |-> 0],
                 again |-> FALSE]

\* RenderlessSelect.setup / setupSelect: useSelect, then the two watchers;
\* watch(modelValue, ..., { immediate: true }) has run once.
InitAdapter ==
  /\ items \in CandidateLists
  /\ multiple \in BOOLEAN
  /\ adapter = TRUE
  /\ modelValue \in ExternalValues
  /\ selected = IF multiple THEN JArr(<< >>) ELSE JNull
  /\ selectedStr = ""
  /\ emitted = JUndefined
  /\ chain = 0
  /\ mark = NoMark
  /\ LET st0 == [values |-> << >>, updated |-> 0]
         st1 == modelValueWatcher(st0, modelValue)
     IN /\ values = st1.values
        /\ updated = st1.updated
        /\ queue = IF st1.updated # 0 THEN <<"updated">> ELSE << >>
        /\ lastCall = [op |-> "setup", item |-> Undefined, arr |-> << >>,
                       val |-> JUndefined, ret |-> FALSE, before |-> st0,
                       again |-> FALSE]

Add(item) ==
  /\ NotFlushing
  /\ updated < MaxUpdated
  /\ Return(add(Tracker, item), Call("add", item, << >>, JUndefined, FALSE))

Remove(item) ==
  /\ NotFlushing
  /\ updated < MaxUpdated
  /\ Return(remove(Tracker, item), Call("remove", item, << >>, JUndefined, FALSE))

Toggle(item) ==
  /\ NotFlushing
  /\ updated < MaxUpdated
  /\ Return(toggle(Tracker, item), Call("toggle", item, << >>, JUndefined, FALSE))

Clear ==
  /\ NotFlushing
  /\ updated < MaxUpdated
  /\ Return(clear(Tracker), Call("clear", Undefined, << >>, JUndefined, FALSE))

\* A call of equals: it returns its answer and assigns nothing.
Equals(arr) ==
  /\ NotFlushing
  /\ lastCall' = Call("equals", Undefined, arr, JUndefined, equals(Tracker, arr))
  /\ UNCHANGED <<items, multiple, values, updated, selected, selectedStr,
                 modelValue, emitted, queue, adapter, chain, mark>>

Select(item) ==
  /\ NotFlushing
  /\ updated < MaxUpdated
  /\ Return(select(Tracker, item), Call("select", item, << >>, JUndefined, FALSE))

SetItems(arr) ==
  /\ NotFlushing
  /\ updated < MaxUpdated
  /\ Return(setItems(Tracker, arr), Call("setItems", Undefined, arr, JUndefined, FALSE))

SetValues(v) ==
  /\ NotFlushing
  /\ updated < MaxUpdated
  /\ Return(setValues(Tracker, v), Call("setValues", Undefined, << >>, v, FALSE))

\* The owner of the model value writes v into the cell; the watcher of
\* modelValue is triggered when the cell holds a different value (an array
\* written is a new object, hence always different).
ExternalSet(v) ==
  /\ adapter
  /\ NotFlushing
  /\ updated < MaxUpdated
  /\ "modelValue" \notin Range(queue)
  /\ modelValue' = v
  /\ queue' = IF v.t = "array" \/ v # modelValue
              THEN queueJob(queue, "modelValue") ELSE queue
  /\ lastCall' = Call("externalSet", Undefined, << >>, JUndefined, FALSE)
  /\ chain' = 0
  /\ mark' = NoMark
  /\ UNCHANGED <<items, multiple, values, updated, selected, selectedStr,
                 emitted, adapter>>

\* What watch(s.selected, ...) does when selected.value is assigned: its job
\* is queued if the watcher is installed and the value assigned differs.
triggerSelected(q, old, new) ==
  IF adapter /\ (new.t = "array" \/ new # old) THEN queueJob(q, "selected") ELSE q

\* watch(s.updated, () => { ... }): recompute selected and selectedStr.
\* In single mode with an empty Set, getValue(items[0]) reads a field of
\* undefined and throws before anything is assigned.
WatchUpdated ==
  /\ queue # << >> /\ Head(queue) = "updated"
  /\ IF multiple
     THEN /\ selected' = JArr([i \in DOMAIN values |-> getValue(values[i])])
          /\ selectedStr' = join(values)
     ELSE IF values = << >>
     THEN UNCHANGED <<selected, selectedStr>>
     ELSE /\ selected' = JNum(getValue(values[1]))
          /\ selectedStr' = join(values)
  /\ queue' = IF ~multiple /\ values = << >>
              THEN Tail(queue)
              ELSE triggerSelected(Tail(queue), selected, selected')
  /\ lastCall' = Call("watchUpdated", Undefined, << >>, JUndefined, FALSE)
  /\ chain' = chain + 1
  /\ UNCHANGED mark
  /\ UNCHANGED <<items, multiple, values, updated, modelValue, emitted, adapter>>

\* watch(s.selected, () => emit('update:model-value', s.selected.value))
WatchSelected ==
  /\ queue # << >> /\ Head(queue) = "selected"
  /\ emitted' = selected
  /\ queue' = Tail(queue)
  /\ lastCall' = Call("watchSelected", Undefined, << >>, JUndefined, FALSE)
  /\ chain' = chain + 1
  /\ UNCHANGED mark
  /\ UNCHANGED <<items, multiple, values, updated, selected, selectedStr,
                 modelValue, adapter>>

WatchModelValue ==
  /\ queue # << >> /\ Head(queue) = "modelValue"
  /\ LET st == modelValueWatcher(Tracker, modelValue)
     IN /\ values' = st.values
        /\ updated' = st.updated
        /\ queue' = IF st.updated # updated
                    THEN queueJob(Tail(queue), "updated") ELSE Tail(queue)
  /\ lastCall' = Call("watchModelValue", Undefined, << >>, JUndefined, FALSE)
  /\ chain' = chain + 1
  /\ UNCHANGED mark
  /\ UNCHANGED <<items, multiple, selected, selectedStr, modelValue, emitted, adapter>>

\* watch(s.selected, ...) under an owner that binds the model value both ways:
\* the value emitted is written into the model value cell, which triggers the
\* watcher of modelValue when the cell then holds a different value (the
\* array emitted is the one the recomputation just built, a new object).
WatchSelectedWriteBack ==
  /\ chain < MaxChain
  /\ queue # << >> /\ Head(queue) = "selected"
  /\ emitted' = selected
  /\ modelValue' = selected
  /\ queue' = IF selected.t = "array" \/ selected # modelValue
              THEN queueJob(Tail(queue), "modelValue") ELSE Tail(queue)
  /\ lastCall' = Call("watchSelected", Undefined, << >>, JUndefined, FALSE)
  /\ chain' = chain + 1
  /\ mark' = IF mark.set THEN mark
             ELSE Snapshot(values, selected, selectedStr, modelValue', queue', chain')
  /\ UNCHANGED <<items, multiple, values, updated, selected, selectedStr, adapter>>

\* setValues(controller.selected): the derived value handed back.
SetSelectedValues == SetValues(selected)

\* useSelect: every operation it returns, and its recomputation.
Next ==
  \/ \E item \in AllItems : Add(item)
  \/ \E item \in AllItems : Remove(item)
  \/ \E item \in AllItems : Toggle(item)
  \/ Clear
  \/ \E arr \in SeqUpTo(AllItems, MaxLen) : Equals(arr)
  \/ \E item \in AllItems : Select(item)
  \/ \E arr \in SeqUpTo(AllItems, MaxLen) : SetItems(arr)
  \/ \E v \in ExternalValues : SetValues(v)
  \/ SetSelectedValues
  \/ WatchUpdated

Spec == InitSelect /\ [][Next]_vars

\* useSelect driven through the controller's own operations only.
NextController ==
  \/ Clear
  \/ \E item \in AllItems : Select(item)
  \/ \E arr \in SeqUpTo(AllItems, MaxLen) : SetItems(arr)
  \/ \E v \in ExternalValues : SetValues(v)
  \/ SetSelectedValues
  \/ WatchUpdated

SpecController == InitSelect /\ [][NextController]_vars

\* RenderlessSelect: the slot's select and clear, the owner of the model
\* value, and the three watchers.
NextAdapter ==
  \/ \E item \in AllItems : Select(item)
  \/ Clear
  \/ \E v \in ExternalValues : ExternalSet(v)
  \/ WatchUpdated
  \/ WatchSelected
  \/ WatchModelValue

SpecAdapter == InitAdapter /\ [][NextAdapter]_vars

\* RenderlessSelect under an owner that writes every value published back
\* into the model value.
NextOwner ==
  \/ \E item \in AllItems : Select(item)
  \/ Clear
  \/ \E v \in ExternalValues : ExternalSet(v)
  \/ WatchUpdated
  \/ WatchSelectedWriteBack
  \/ WatchModelValue

SpecOwner == InitAdapter /\ [][NextOwner]_vars

(***************************************************************************)
(* Properties.  lastCall.before is the tracker as the last call found it,  *)
(* so a state right after a call shows both ends of the call.              *)
(***************************************************************************)

Before == lastCall.before

\* The call left the Set and the counter as it found them.
NoEffect == values = Before.values /\ updated = Before.updated

\* How many times the counter was bumped by the last call.
Bumps == updated - Before.updated

IsCandidate(item) == item \in Range(items)

\* C1: every member of the Selection Set is a member of the Candidate List,
\* whatever add, remove, toggle, clear, select, setItems and setValues calls
\* were made and whatever their arguments.
C1_SelectionWithinCandidates == Range(values) \subseteq Range(items)

\* A bulk replacement that named a non-candidate has acted and left something
\* selected.
C1_Witness ==
  /\ lastCall.op = "setItems"
  /\ \E i \in DOMAIN lastCall.arr : ~IsCandidate(lastCall.arr[i])
  /\ values # << >>

\* C2: in single mode, after any sequence of select, setItems, setValues and
\* clear calls, the Selection Set holds at most one item.
C2_SingleModeCardinality == ~multiple => Len(values) <= 1

\* In single mode, setItems with two different candidates has acted.
C2_Witness ==
  /\ ~multiple
  /\ lastCall.op = "setItems"
  /\ Len(lastCall.arr) = 2
  /\ lastCall.arr[1] # lastCall.arr[2]
  /\ \A i \in DOMAIN lastCall.arr : IsCandidate(lastCall.arr[i])
  /\ Len(values) = 1

\* C3: clear() increments the Change Counter if and only if the Selection Set
\* was non-empty before the call (so a clear() of an empty set, such as the
\* second of two consecutive clear() calls, increments nothing).
C3_ClearBumpsIffNonEmpty ==
  lastCall.op = "clear" =>
    /\ values = << >>
    /\ Bumps = (IF Before.values # << >> THEN 1 ELSE 0)

\* C4: add(item) for a candidate already selected changes neither the
\* Selection Set nor the Change Counter; for a candidate not yet selected it
\* inserts the item and increments the counter exactly once.
C4_AddCandidate ==
  (lastCall.op = "add" /\ IsCandidate(lastCall.item)) =>
    IF lastCall.item \in Range(Before.values)
    THEN NoEffect
    ELSE values = Append(Before.values, lastCall.item) /\ Bumps = 1

\* C5: select(x), toggle(x) and remove(x) with x not a candidate leave the
\* Selection Set unchanged and do not increment the Change Counter, in both
\* selection modes.
C5_NonCandidateIgnored ==
  (lastCall.op \in {"select", "toggle", "remove"} /\ ~IsCandidate(lastCall.item))
    => NoEffect

\* C6: add(item) with item not in the Candidate List never changes the
\* Selection Set and never increments the Change Counter.
C6_AddNonCandidateNoEffect ==
  (lastCall.op = "add" /\ ~IsCandidate(lastCall.item)) => NoEffect

\* add of a non-candidate has acted on a non-empty selection.
C6_Witness ==
  /\ lastCall.op = "add"
  /\ ~IsCandidate(lastCall.item)
  /\ Before.values # << >>

\* A null, absent or empty-string model value.
IsAbsent(v) == v.t \in {"null", "undefined", "string"}

OddOccurrences(arr) ==
  {x \in Range(arr) : Cardinality({i \in DOMAIN arr : arr[i] = x}) % 2 = 1}

\* setItems was called with candidates only and equals(items) was false.
SetItemsApplied ==
  /\ lastCall.op = "setItems"
  /\ \A i \in DOMAIN lastCall.arr : IsCandidate(lastCall.arr[i])
  /\ ~equals(Before, lastCall.arr)

\* C8 as stated: setItems(items) called when equals(items) is false leaves the
\* Selection Set equal to exactly the set of elements of items, for every
\* sequence of candidates and in both modes.
C8_SetItemsExact == SetItemsApplied => Range(values) = Range(lastCall.arr)

\* C8 amended: in multiple mode the Selection Set is left holding the items
\* that occur an odd number of times in items (every element, when none is
\* repeated); in single mode it is left holding the last element only.
C8_SetItemsByMode ==
  SetItemsApplied =>
    IF multiple
    THEN Range(values) = OddOccurrences(lastCall.arr)
    ELSE values = IF lastCall.arr = << >> THEN << >>
                  ELSE <<lastCall.arr[Len(lastCall.arr)]>>

\* In multiple mode, setItems with two different candidates has replaced a
\* non-empty selection that differed from them.
C8_Witness ==
  /\ SetItemsApplied
  /\ multiple
  /\ Len(lastCall.arr) = 2
  /\ lastCall.arr[1] # lastCall.arr[2]
  /\ Before.values # << >>
  /\ Range(values) = Range(lastCall.arr)

\* C9: equals(items) returns true if and only if the set of elements of items
\* is exactly the Selection Set, for every sequence items, and it changes
\* neither the Selection Set nor the Change Counter.
C9_EqualsIsSetEquality ==
  lastCall.op = "equals" =>
    /\ lastCall.ret = (Range(lastCall.arr) = Range(Before.values))
    /\ NoEffect

\* The items of the selection as found by the last call, each being the
\* Value Index entry of its own value.
SelectionIsIndexed ==
  \A i \in DOMAIN Before.values :
    itemMapGet(JNum(getValue(Before.values[i]))) = Before.values[i]

\* In multiple mode, setValues was called with selected, and selected was the
\* projection of the Selection Set.
RoundTrip ==
  /\ multiple
  /\ lastCall.op = "setValues"
  /\ lastCall.val = selected
  /\ selected = JArr([i \in DOMAIN Before.values |-> getValue(Before.values[i])])

\* C10 as stated: in multiple mode, once selected reflects the Selection Set,
\* setValues(selected) changes neither the Selection Set nor the Change
\* Counter, for every selection and every Candidate List.
C10_RoundTripNoOp == RoundTrip => NoEffect

\* C10 amended: the same, for every selection whose items are each the Value
\* Index entry of their value (every selection, when no two candidates share
\* a value).
C10_RoundTripNoOpIndexed == (RoundTrip /\ SelectionIsIndexed) => NoEffect

\* setValues(selected) has acted on a selection of two items.
C10_Witness ==
  /\ RoundTrip
  /\ SelectionIsIndexed
  /\ Len(Before.values) = 2

\* The values handed to setValues, as a sequence of numbers: a sequence as it
\* is, a number as the sequence of itself, anything else as no value.
GivenValues(v) ==
  IF v.t = "array" THEN v.a
  ELSE IF v.t = "number" THEN <<v.n>>
  ELSE << >>

\* Whether some candidate projects to the value k.
HasCandidate(k) == \E i \in DOMAIN items : getValue(items[i]) = k

\* The candidates the given numbers stand for, in the order given, a number
\* without a candidate being skipped.
RECURSIVE KeptItems(_)
KeptItems(ks) ==
  IF ks = << >> THEN << >>
  ELSE IF HasCandidate(Head(ks))
       THEN <<itemMap[Head(ks)]>> \o KeptItems(Tail(ks))
       ELSE KeptItems(Tail(ks))

\* C11: setValues(values) takes a scalar or a sequence, resolves each value
\* through the Value Index, drops the values without a candidate and hands
\* exactly the resolved candidates to setItems; setValues([2, 99]) with
\* candidates valued 1 and 2 selects the candidate valued 2 only, and with an
\* empty Candidate List the Selection Set stays empty.
C11_SetValuesResolves ==
  lastCall.op = "setValues" =>
    /\ Tracker = setItems(Before, KeptItems(GivenValues(lastCall.val)))
    /\ (\A k \in Range(GivenValues(lastCall.val)) : ~HasCandidate(k))
         => values = << >>
    /\ (items = <<"A", "B">> /\ lastCall.val = JArr(<<2, 99>>)) => values = <<"B">>
    /\ (items = <<"A", "B">> /\ lastCall.val = JNum(2)) => values = <<"B">>
    /\ items = << >> => values = << >>

\* setValues([2, 99]) has acted on candidates valued 1 and 2 with the other
\* candidate selected.
C11_Witness ==
  /\ lastCall.op = "setValues"
  /\ items = <<"A", "B">>
  /\ lastCall.val = JArr(<<2, 99>>)
  /\ Before.values = <<"A">>
  /\ values = <<"B">>

\* The number of elements of the selected-values shape: the length of the
\* sequence in multiple mode, one for a scalar and none for an absent one in
\* single mode.
SelectedSize ==
  IF multiple THEN Len(selected.a)
  ELSE IF selected.t \in {"null", "undefined"} THEN 0 ELSE 1

\* C12: the emptiness flag is true if and only if the active selected-values
\* shape has zero elements, in the initial state and after every
\* recomputation of the derived views.
C12_EmptinessFlag == isEmpty(selected) = (SelectedSize = 0)

\* C13: a toggle of a candidate increments the Change Counter exactly once and
\* a toggle of a non-candidate not at all; toggle(x); toggle(x) for a
\* candidate x leaves the Selection Set equal to what it was before the first
\* of the two and the counter two higher.
C13_ToggleInverse ==
  [][lastCall'.op = "toggle" =>
       /\ updated' - updated = (IF IsCandidate(lastCall'.item) THEN 1 ELSE 0)
       /\ (lastCall.op = "toggle" /\ lastCall.item = lastCall'.item
             /\ IsCandidate(lastCall.item))
            => /\ Range(values') = Range(Before.values)
               /\ updated' = Before.updated + 2]_vars

\* The second of two toggles of the same candidate has acted, with another
\* item selected throughout.
C13_Witness ==
  /\ lastCall.op = "toggle"
  /\ lastCall.again
  /\ IsCandidate(lastCall.item)
  /\ values # << >>
  /\ lastCall.item \notin Range(values)

\* The items the last bulk call applied: the argument of setItems, the
\* resolved candidates of setValues.
AppliedItems ==
  IF lastCall.op = "setValues" THEN resolve(lastCall.val) ELSE lastCall.arr

\* C14 as stated: within one select, setItems, setValues or toggle call the
\* Change Counter increments at most once, in both modes.
C14_AtMostOneBump ==
  lastCall.op \in {"select", "setItems", "setValues", "toggle"} => Bumps <= 1

\* C14: within one toggle call the Change Counter increments at most once;
\* within one select call at most once in multiple mode and at most twice
\* (the clear, then the add) in single mode; within one setItems or setValues
\* call not at all when the argument is judged equal to the selection, and
\* otherwise at most once for the clear plus once (multiple mode) or twice
\* (single mode) per item applied.  However many increments one call makes,
\* it leaves exactly one recomputation pending.
C14_BumpsPerCall ==
  /\ lastCall.op = "toggle" => Bumps <= 1
  /\ lastCall.op = "select" => Bumps <= (IF multiple THEN 1 ELSE 2)
  /\ lastCall.op \in {"setItems", "setValues"} =>
       /\ equals(Before, AppliedItems) => Bumps = 0
       /\ Bumps <= 1 + Len(AppliedItems) * (IF multiple THEN 1 ELSE 2)
  /\ (lastCall.op \in {"select", "setItems", "setValues", "toggle"} /\ Bumps > 0)
       => Cardinality({i \in DOMAIN queue : queue[i] = "updated"}) = 1

\* A single-mode select has bumped the counter twice.
C14_Witness ==
  /\ ~multiple
  /\ lastCall.op = "select"
  /\ Bumps = 2
  /\ values = <<lastCall.item>>

\* The selected values the Selection Set vs projects to through toValue.
Projection(vs) ==
  IF multiple THEN JArr([i \in DOMAIN vs |-> getValue(vs[i])])
  ELSE IF vs = << >> THEN JUndefined
  ELSE JNum(getValue(vs[1]))

\* sel shows the projection of vs; absent is null or undefined.
Shows(sel, vs) ==
  IF ~multiple /\ vs = << >>
  THEN sel.t \in {"null", "undefined"}
  ELSE sel = Projection(vs)

\* C15: after one select or setValues call that found the derived views up to
\* date and changed the projected selection, the recomputation runs once on
\* the Selection Set the call left: it makes the derived views show that set,
\* is no longer pending, and leaves one publish pending.
C15_RecomputeAndPublishOnce ==
  [][(/\ lastCall.op \in {"select", "watchModelValue"}
      /\ Shows(selected, Before.values)
      /\ Projection(values) # Projection(Before.values)
      /\ queue = <<"updated">>
      /\ lastCall'.op = "watchUpdated")
       => /\ Shows(selected', values)
          /\ selectedStr' = join(values)
          /\ "updated" \notin Range(queue')
          /\ Cardinality({i \in DOMAIN queue' : queue'[i] = "selected"}) = 1]_vars

\* C16: whenever no recomputation is pending, the derived selected values are
\* the projection of the Selection Set through toValue (absent in single mode
\* when the set is empty) and the display string is the selected items'
\* texts joined with a comma.
C16_DerivedViewsCurrent ==
  "updated" \notin Range(queue) =>
    /\ Shows(selected, values)
    /\ selectedStr = join(values)

\* C17: every change of the Selection Set is eventually followed by a publish
\* of the new selected values, so that once a change has happened and every
\* watcher has run the last published value is the projection of the
\* Selection Set (absent when single mode holds nothing).
C17_PublishedIsCurrent ==
  (queue = << >> /\ updated > 0) => Shows(emitted, values)

\* C18: when the watcher of the model value has applied an external value and
\* left the Selection Set as it found it, with the derived views up to date
\* and no publish pending, the recomputation it caused (if any) queues no
\* publish.
C18_SameSelectionNoPublish ==
  [][(/\ lastCall.op = "watchModelValue"
      /\ Range(values) = Range(Before.values)
      /\ Shows(selected, Before.values)
      /\ "selected" \notin Range(queue)
      /\ Bumps > 0
      /\ lastCall'.op = "watchUpdated")
       => "selected" \notin Range(queue')]_vars

\* A run of watcher jobs, with no call and no external write in between, is
\* back in the state its first write-back left, the counter apart: the jobs
\* being determined by the queue, the run repeats from here for ever.
Recurred ==
  /\ mark.set
  /\ chain > mark.at
  /\ Snapshot(values, selected, selectedStr, modelValue, queue, mark.at) = mark

\* C19: with an owner that writes every published value back into the model
\* value, the watcher jobs that follow an external change or a select or
\* clear call never come back to a state they have left: the run is not a
\* loop and ends with nothing pending.
C19_NoFeedbackLoop == ~Recurred

\* C20: the Value Index maps a value to the last candidate, in Candidate List
\* order, that projects to it: setValues with one value that some candidate
\* projects to leaves exactly that last candidate selected, and so never an
\* earlier candidate of the same value.
C20_LastCandidateWins ==
  (/\ lastCall.op = "setValues"
   /\ Len(GivenValues(lastCall.val)) = 1
   /\ HasCandidate(GivenValues(lastCall.val)[1]))
    => \E j \in DOMAIN items :
         /\ getValue(items[j]) = GivenValues(lastCall.val)[1]
         /\ \A k \in DOMAIN items :
              getValue(items[k]) = getValue(items[j]) => k <= j
         /\ values = <<items[j]>>

\* setValues(2) has acted with B and C both projecting to 2 and the earlier
\* one, B, selected before: C is selected.
C20_Witness ==
  /\ lastCall.op = "setValues"
  /\ lastCall.val = JNum(2)
  /\ {"B", "C"} \subseteq Range(items)
  /\ Before.values = <<"B">>
  /\ values = <<"C">>

====
